---- MODULE Spec2Model ----
(***************************************************************************)
(* Model of the osv client library (src/src/lib.rs): the serde data model  *)
(* of the OSV vulnerability schema, the untagged Request / Response wire   *)
(* forms and the four public operations query, query_package,              *)
(* query_commit and vulnerability running against a nondeterministic HTTP  *)
(* transport.                                                              *)
(***************************************************************************)
EXTENDS FiniteSets, Integers, Sequences, TLC

VARIABLES pc, op, req, vuln_id, sent, response, result, returns,
          stage, entity, subject, wire, decoded

callVars  == <<pc, op, req, vuln_id, sent, response, result, returns>>
codecVars == <<stage, entity, subject, wire, decoded>>
vars      == <<pc, op, req, vuln_id, sent, response, result, returns,
               stage, entity, subject, wire, decoded>>

(***************************************************************************)
(* Bounds of the model.                                                    *)
(***************************************************************************)
\* longest "vulns" array a modelled response body carries
MaxVulns == 2
\* longest vulnerability id, in lexemes (see IdLexemes)
MaxIdLen == 2
\* longest affected list of a Vulnerability value that is encoded
MaxAffected == 1

(***************************************************************************)
(* Rust values.  Option<T> is a sequence of length 0 (None) or 1 (Some),   *)
(* Result<T, E> is a record with the single field ok or err.               *)
(***************************************************************************)
None      == <<>>
Some(x)   == <<x>>
Ok(x)     == [ok |-> x]
Err(e)    == [err |-> e]
IsOk(r)   == "ok" \in DOMAIN r
IsErr(r)  == "err" \in DOMAIN r

(***************************************************************************)
(* JSON documents (serde_json::Value).  Every document is a record whose   *)
(* single field names its kind, so that any two documents are comparable.  *)
(* An object is a function from its keys to documents.                     *)
(***************************************************************************)
JNull     == [null |-> TRUE]
JStr(s)   == [s |-> s]
JNum(n)   == [n |-> n]
JArr(a)   == [a |-> a]
JObj(o)   == [o |-> o]
IsNull(j) == "null" \in DOMAIN j
IsStr(j)  == "s" \in DOMAIN j
IsArr(j)  == "a" \in DOMAIN j
IsObj(j)  == "o" \in DOMAIN j
EmptyObj  == [k \in {} |-> JNull]
\* the object o with the member k: j added (or replaced)
With(o, k, j) == [x \in DOMAIN o \cup {k} |-> IF x = k THEN j ELSE o[x]]

(***************************************************************************)
(* Generic pieces of the derived Deserialize implementations.              *)
(***************************************************************************)
\* a required struct field, decoded_member being what its decoder makes of
\* o[k]: a missing key is an error
DecodeField(o, k, decoded_member) ==
    IF k \in DOMAIN o THEN decoded_member ELSE Err("missing field")
\* an Option<T> struct field: a missing key or a null decodes to None
SomeIfOk(r) == IF IsOk(r) THEN Ok(Some(r.ok)) ELSE r
DecodeOption(o, k, decoded_member) ==
    IF k \notin DOMAIN o \/ IsNull(o[k]) THEN Ok(None)
    ELSE SomeIfOk(decoded_member)
\* the struct (or the Vec) of the decoded fields (items), unless one failed
Collect(parts) ==
    IF \E k \in DOMAIN parts : IsErr(parts[k]) THEN Err("invalid value")
    ELSE Ok([k \in DOMAIN parts |-> parts[k].ok])
\* Vec<T>, decoded_items being what the decoder of T makes of each item:
\* an array all of whose items decode
DecodeVec(j, decoded_items) ==
    IF ~IsArr(j) THEN Err("invalid type") ELSE Collect(decoded_items)
DecodeString(j) == IF IsStr(j) THEN Ok(j.s) ELSE Err("invalid type")
\* serde_json::Value accepts every document as it is
DecodeValue(j)  == Ok(j)
EncodeString(s) == JStr(s)
EncodeStrings(v) == JArr([i \in 1..Len(v) |-> JStr(v[i])])
\* the keys of a struct that reach the wire: the required ones, and the
\* optional ones (skip_serializing_if = "Option::is_none") that are Some
EmittedKeys(v, required, optional) ==
    required \cup {k \in optional : v[k] # None}

(***************************************************************************)
(* DateTime<Utc>: an instant (hours since a fixed epoch) with its RFC 3339 *)
(* spellings.  Encoding writes the "Z" form; decoding also accepts other   *)
(* offsets and normalises them to UTC.                                     *)
(***************************************************************************)
Instants == {0, 1}
FormatDateTime(t) ==
    IF t = 0 THEN "2020-01-01T00:00:00Z" ELSE "2020-01-01T01:00:00Z"
DecodeDateTime(j) ==
    IF ~IsStr(j) THEN Err("invalid type")
    ELSE IF j.s = "2020-01-01T00:00:00Z" THEN Ok(0)
    ELSE IF j.s = "2020-01-01T01:00:00+01:00" THEN Ok(0)
    ELSE IF j.s = "2020-01-01T01:00:00Z" THEN Ok(1)
    ELSE Err("invalid date")
EncodeDateTime(t) == JStr(FormatDateTime(t))

(***************************************************************************)
(* The tag types.  A variant is named as in the source; its wire spelling  *)
(* is what the serde attributes of the type make of that name.             *)
(***************************************************************************)
Ecosystem == {"Go", "Npm", "OssFuzz", "PyPI", "RubyGems", "CratesIO",
              "Packagist", "Maven", "NuGet", "Linux", "Debian", "Hex",
              "Android", "GitHubActions", "Pub"}
EcosystemTag(e) ==
    CASE e = "Npm"           -> "npm"
      [] e = "OssFuzz"       -> "OSS-Fuzz"
      [] e = "CratesIO"      -> "crates.io"
      [] e = "GitHubActions" -> "GitHub Actions"
      [] OTHER               -> e
EncodeEcosystem(e) == JStr(EcosystemTag(e))
DecodeEcosystem(j) ==
    IF IsStr(j) /\ \E e \in Ecosystem : EcosystemTag(e) = j.s
    THEN Ok(CHOOSE e \in Ecosystem : EcosystemTag(e) = j.s)
    ELSE Err("unknown variant")

RangeType == {"Unspecified", "Git", "Semver", "Ecosystem"}
RangeTypeTag(t) ==
    CASE t = "Unspecified" -> "UNSPECIFIED"
      [] t = "Git"         -> "GIT"
      [] t = "Semver"      -> "SEMVER"
      [] t = "Ecosystem"   -> "ECOSYSTEM"
EncodeRangeType(t) == JStr(RangeTypeTag(t))
DecodeRangeType(j) ==
    IF IsStr(j) /\ \E t \in RangeType : RangeTypeTag(t) = j.s
    THEN Ok(CHOOSE t \in RangeType : RangeTypeTag(t) = j.s)
    ELSE Err("unknown variant")

ReferenceType == {"Undefined", "Web", "Advisory", "Report", "Fix",
                  "Package", "Article"}
\* the variant names upper-cased with no rename of Undefined
ReferenceTypeTag_NoRename(t) ==
    CASE t = "Undefined" -> "UNDEFINED"
      [] t = "Web"       -> "WEB"
      [] t = "Advisory"  -> "ADVISORY"
      [] t = "Report"    -> "REPORT"
      [] t = "Fix"       -> "FIX"
      [] t = "Package"   -> "PACKAGE"
      [] t = "Article"   -> "ARTICLE"
ReferenceTypeTag(t) ==
    CASE t = "Undefined" -> "NONE"
      [] t = "Web"       -> "WEB"
      [] t = "Advisory"  -> "ADVISORY"
      [] t = "Report"    -> "REPORT"
      [] t = "Fix"       -> "FIX"
      [] t = "Package"   -> "PACKAGE"
      [] t = "Article"   -> "ARTICLE"
EncodeReferenceType(t) == JStr(ReferenceTypeTag(t))
DecodeReferenceType(j) ==
    IF IsStr(j) /\ \E t \in ReferenceType : ReferenceTypeTag(t) = j.s
    THEN Ok(CHOOSE t \in ReferenceType : ReferenceTypeTag(t) = j.s)
    ELSE Err("unknown variant")

SeverityType == {"Unspecified", "CVSSv3"}
SeverityTypeTag(t) ==
    CASE t = "Unspecified" -> "UNSPECIFIED"
      [] t = "CVSSv3"      -> "CVSS_V3"
EncodeSeverityType(t) == JStr(SeverityTypeTag(t))
DecodeSeverityType(j) ==
    IF IsStr(j) /\ \E t \in SeverityType : SeverityTypeTag(t) = j.s
    THEN Ok(CHOOSE t \in SeverityType : SeverityTypeTag(t) = j.s)
    ELSE Err("unknown variant")

(***************************************************************************)
(* Event: an externally tagged enum of newtype variants.  On the wire it   *)
(* is an object with exactly one member, the lower-case variant name.      *)
(***************************************************************************)
EventKind == {"Introduced", "Fixed", "Limit"}
EventTag(k) ==
    CASE k = "Introduced" -> "introduced"
      [] k = "Fixed"      -> "fixed"
      [] k = "Limit"      -> "limit"
Event(k, s) == [kind |-> k, version |-> s]
EncodeEvent(e) == JObj([x \in {EventTag(e.kind)} |-> JStr(e.version)])
DecodeEvent(j) ==
    IF ~IsObj(j) THEN Err("invalid type")
    ELSE IF Cardinality(DOMAIN j.o) # 1 THEN Err("expected map with a single key")
    ELSE LET key == CHOOSE x \in DOMAIN j.o : TRUE IN
         IF ~\E k \in EventKind : EventTag(k) = key THEN Err("unknown variant")
         ELSE IF ~IsStr(j.o[key]) THEN Err("invalid type")
         ELSE Ok(Event(CHOOSE k \in EventKind : EventTag(k) = key, j.o[key].s))

(***************************************************************************)
(* The struct entities.  Each Encode writes the required keys and the      *)
(* optional keys whose value is Some; each Decode reads the keys it knows, *)
(* ignores the others and fails on a missing or ill-typed required key.    *)
(***************************************************************************)
EncodePackage(p) ==
    JObj([k \in EmittedKeys(p, {"name", "ecosystem"}, {"purl"}) |->
            CASE k = "name"      -> EncodeString(p.name)
              [] k = "ecosystem" -> EncodeEcosystem(p.ecosystem)
              [] k = "purl"      -> EncodeString(p.purl[1])])
DecodePackage(j) ==
    IF ~IsObj(j) THEN Err("invalid type")
    ELSE Collect(
            [name |-> DecodeField(j.o, "name",
                 DecodeString(j.o["name"])),
             ecosystem |-> DecodeField(j.o, "ecosystem",
                 DecodeEcosystem(j.o["ecosystem"])),
             purl |-> DecodeOption(j.o, "purl",
                 DecodeString(j.o["purl"]))])

EncodeRange(r) ==
    JObj([k \in EmittedKeys(r, {"type", "events"}, {"repo"}) |->
            CASE k = "type"   -> EncodeRangeType(r.range_type)
              [] k = "repo"   -> EncodeString(r.repo[1])
              [] k = "events" ->
                   JArr([i \in 1..Len(r.events) |-> EncodeEvent(r.events[i])])])
DecodeEvents(j) ==
    DecodeVec(j, [i \in 1..Len(j.a) |-> DecodeEvent(j.a[i])])
DecodeRange(j) ==
    IF ~IsObj(j) THEN Err("invalid type")
    ELSE Collect(
            [range_type |-> DecodeField(j.o, "type",
                 DecodeRangeType(j.o["type"])),
             repo |-> DecodeOption(j.o, "repo",
                 DecodeString(j.o["repo"])),
             events |-> DecodeField(j.o, "events",
                 DecodeEvents(j.o["events"]))])

DecodeStrings(j) ==
    DecodeVec(j, [i \in 1..Len(j.a) |-> DecodeString(j.a[i])])
DecodeRanges(j) ==
    DecodeVec(j, [i \in 1..Len(j.a) |-> DecodeRange(j.a[i])])
EncodeAffected(a) ==
    JObj([k \in EmittedKeys(a, {"package", "ranges"},
                  {"versions", "ecosystem_specific", "database_specific"}) |->
            CASE k = "package"  -> EncodePackage(a.package)
              [] k = "ranges"   ->
                   JArr([i \in 1..Len(a.ranges) |-> EncodeRange(a.ranges[i])])
              [] k = "versions" -> EncodeStrings(a.versions[1])
              [] k = "ecosystem_specific" -> a.ecosystem_specific[1]
              [] k = "database_specific"  -> a.database_specific[1]])
DecodeAffected(j) ==
    IF ~IsObj(j) THEN Err("invalid type")
    ELSE Collect(
            [package |-> DecodeField(j.o, "package",
                 DecodePackage(j.o["package"])),
             ranges |-> DecodeField(j.o, "ranges",
                 DecodeRanges(j.o["ranges"])),
             versions |-> DecodeOption(j.o, "versions",
                 DecodeStrings(j.o["versions"])),
             ecosystem_specific |-> DecodeOption(j.o, "ecosystem_specific",
                 DecodeValue(j.o["ecosystem_specific"])),
             database_specific |-> DecodeOption(j.o, "database_specific",
                 DecodeValue(j.o["database_specific"]))])

EncodeReference(r) ==
    JObj([k \in {"type", "url"} |->
            IF k = "type" THEN EncodeReferenceType(r.reference_type)
            ELSE EncodeString(r.url)])
DecodeReference(j) ==
    IF ~IsObj(j) THEN Err("invalid type")
    ELSE Collect(
            [reference_type |-> DecodeField(j.o, "type",
                 DecodeReferenceType(j.o["type"])),
             url |-> DecodeField(j.o, "url",
                 DecodeString(j.o["url"]))])

EncodeSeverity(s) ==
    JObj([k \in {"type", "score"} |->
            IF k = "type" THEN EncodeSeverityType(s.severity_type)
            ELSE EncodeString(s.score)])
DecodeSeverity(j) ==
    IF ~IsObj(j) THEN Err("invalid type")
    ELSE Collect(
            [severity_type |-> DecodeField(j.o, "type",
                 DecodeSeverityType(j.o["type"])),
             score |-> DecodeField(j.o, "score",
                 DecodeString(j.o["score"]))])

EncodeCredit(c) ==
    JObj([k \in {"name", "contact"} |->
            IF k = "name" THEN EncodeString(c.name)
            ELSE EncodeStrings(c.contact)])
DecodeCredit(j) ==
    IF ~IsObj(j) THEN Err("invalid type")
    ELSE Collect(
            [name |-> DecodeField(j.o, "name",
                 DecodeString(j.o["name"])),
             contact |-> DecodeField(j.o, "contact",
                 DecodeStrings(j.o["contact"]))])

DecodeAffecteds(j) ==
    DecodeVec(j, [i \in 1..Len(j.a) |-> DecodeAffected(j.a[i])])
DecodeReferences(j) ==
    DecodeVec(j, [i \in 1..Len(j.a) |-> DecodeReference(j.a[i])])
DecodeSeverities(j) ==
    DecodeVec(j, [i \in 1..Len(j.a) |-> DecodeSeverity(j.a[i])])
DecodeCredits(j) ==
    DecodeVec(j, [i \in 1..Len(j.a) |-> DecodeCredit(j.a[i])])
VulnerabilityRequired == {"schema_version", "id", "published", "modified",
                          "affected"}
VulnerabilityOptional == {"withdrawn", "aliases", "related", "summary",
                          "details", "references", "severity", "credits",
                          "database_specific"}
EncodeVulnerability(v) ==
    JObj([k \in EmittedKeys(v, VulnerabilityRequired, VulnerabilityOptional) |->
            CASE k = "schema_version" -> EncodeString(v.schema_version)
              [] k = "id"         -> EncodeString(v.id)
              [] k = "published"  -> EncodeDateTime(v.published)
              [] k = "modified"   -> EncodeDateTime(v.modified)
              [] k = "withdrawn"  -> EncodeDateTime(v.withdrawn[1])
              [] k = "aliases"    -> EncodeStrings(v.aliases[1])
              [] k = "related"    -> EncodeStrings(v.related[1])
              [] k = "summary"    -> EncodeString(v.summary[1])
              [] k = "details"    -> EncodeString(v.details[1])
              [] k = "affected"   ->
                   JArr([i \in 1..Len(v.affected) |->
                            EncodeAffected(v.affected[i])])
              [] k = "references" ->
                   JArr([i \in 1..Len(v.references[1]) |->
                            EncodeReference(v.references[1][i])])
              [] k = "severity"   ->
                   JArr([i \in 1..Len(v.severity[1]) |->
                            EncodeSeverity(v.severity[1][i])])
              [] k = "credits"    ->
                   JArr([i \in 1..Len(v.credits[1]) |->
                            EncodeCredit(v.credits[1][i])])
              [] k = "database_specific" -> v.database_specific[1]])
DecodeVulnerability(j) ==
    IF ~IsObj(j) THEN Err("invalid type")
    ELSE Collect(
            [schema_version |-> DecodeField(j.o, "schema_version",
                 DecodeString(j.o["schema_version"])),
             id |-> DecodeField(j.o, "id",
                 DecodeString(j.o["id"])),
             published |-> DecodeField(j.o, "published",
                 DecodeDateTime(j.o["published"])),
             modified |-> DecodeField(j.o, "modified",
                 DecodeDateTime(j.o["modified"])),
             withdrawn |-> DecodeOption(j.o, "withdrawn",
                 DecodeDateTime(j.o["withdrawn"])),
             aliases |-> DecodeOption(j.o, "aliases",
                 DecodeStrings(j.o["aliases"])),
             related |-> DecodeOption(j.o, "related",
                 DecodeStrings(j.o["related"])),
             summary |-> DecodeOption(j.o, "summary",
                 DecodeString(j.o["summary"])),
             details |-> DecodeOption(j.o, "details",
                 DecodeString(j.o["details"])),
             affected |-> DecodeField(j.o, "affected",
                 DecodeAffecteds(j.o["affected"])),
             references |-> DecodeOption(j.o, "references",
                 DecodeReferences(j.o["references"])),
             severity |-> DecodeOption(j.o, "severity",
                 DecodeSeverities(j.o["severity"])),
             credits |-> DecodeOption(j.o, "credits",
                 DecodeCredits(j.o["credits"])),
             database_specific |-> DecodeOption(j.o, "database_specific",
                 DecodeValue(j.o["database_specific"]))])

(***************************************************************************)
(* Request (Serialize only, untagged) and Response (untagged).             *)
(***************************************************************************)
CommitQuery(c)     == [commit |-> c]
PackageQuery(v, p) == [version |-> v, package |-> p]
IsCommitQuery(q)   == "commit" \in DOMAIN q
\* EncodeRequest without the untagged attribute: externally tagged
EncodeRequest_Tagged(q) ==
    IF IsCommitQuery(q)
    THEN JObj([t \in {"CommitQuery"} |->
                JObj([k \in {"commit"} |-> EncodeString(q.commit)])])
    ELSE JObj([t \in {"PackageQuery"} |->
                JObj([k \in {"version", "package"} |->
                        IF k = "version" THEN EncodeString(q.version)
                        ELSE EncodePackage(q.package)])])
\* an untagged enum writes the fields of the variant and nothing else
EncodeRequest(q) ==
    IF IsCommitQuery(q)
    THEN JObj([k \in {"commit"} |-> EncodeString(q.commit)])
    ELSE JObj([k \in {"version", "package"} |->
                 IF k = "version" THEN EncodeString(q.version)
                 ELSE EncodePackage(q.package)])

Vulnerabilities(vs) == [vulns |-> vs]
IsVulnerabilities(r) == "vulns" \in DOMAIN r
NoResult(j)         == [value |-> j]
DecodeVulnerabilityList(j) ==
    DecodeVec(j, [i \in 1..Len(j.a) |-> DecodeVulnerability(j.a[i])])
\* the first variant, a struct with the one field vulns
DecodeVulnerabilitiesVariant(j) ==
    IF ~IsObj(j) THEN Err("invalid type")
    ELSE Collect([vulns |-> DecodeField(j.o, "vulns",
                 DecodeVulnerabilityList(j.o["vulns"]))])
FirstOk(first, second) == IF IsOk(first) THEN first ELSE second
\* an untagged enum tries its variants in order and takes the first that
\* decodes; the second variant holds any document
DecodeResponse(j) ==
    FirstOk(DecodeVulnerabilitiesVariant(j), Ok(NoResult(DecodeValue(j).ok)))

(***************************************************************************)
(* ApiError.                                                               *)
(***************************************************************************)
NotFound(s)        == [kind |-> "NotFound", resource |-> s]
InvalidUrl(e)      == [kind |-> "InvalidUrl", parse_error |-> e]
SerializationError == [kind |-> "SerializationError"]
RequestFailed(e)   == [kind |-> "RequestFailed", surf_error |-> e]
Unexpected         == [kind |-> "Unexpected"]
\* impl From<surf::Error> for ApiError
FromSurfError(e)   == RequestFailed(e)

(***************************************************************************)
(* Url::parse and Url::join.  A string handed to join is a sequence of     *)
(* lexemes: a run of plain characters, "/", "..", "?", "#" or the scheme   *)
(* prefix "http:".  A URL is its scheme, host, path (a sequence of         *)
(* segments, each a sequence of lexemes), query and fragment.              *)
(***************************************************************************)
PlainLexemes == {"OSV-2020-484"}
IdLexemes    == PlainLexemes \cup {"/", "..", "?", "#", "http:"}
\* the ids of the model: "http:" is a scheme only where an id starts with it
Ids == {id \in UNION {[1..n -> IdLexemes] : n \in 0..MaxIdLen} :
            \A i \in 2..Len(id) : id[i] # "http:"}
\* hosts are lower-cased
LowerLexeme(l) == IF l = "OSV-2020-484" THEN "osv-2020-484" ELSE l
\* Url::parse("https://api.osv.dev/v1/vulns/")
BaseUrl == [scheme |-> "https", host |-> <<"api.osv.dev">>,
            path |-> << <<"v1">>, <<"vulns">>, <<>> >>,
            query |-> None, fragment |-> None]
\* the first position of s holding a lexeme of set, Len(s) + 1 if none
FirstOf(s, set) ==
    IF \E i \in 1..Len(s) : s[i] \in set
    THEN CHOOSE i \in 1..Len(s) :
            s[i] \in set /\ \A h \in 1..(i - 1) : s[h] \notin set
    ELSE Len(s) + 1
Before(s, i) == SubSeq(s, 1, i - 1)
After(s, i)  == SubSeq(s, i + 1, Len(s))
\* shorten a path: drop its last segment, if any
ShortenPath(path) == IF path = <<>> THEN path ELSE Before(path, Len(path))
\* one segment read by the path state; slash tells whether a "/" ended it
PushSegment(path, segment, slash) ==
    IF segment = <<"..">>
    THEN IF slash THEN ShortenPath(path) ELSE Append(ShortenPath(path), <<>>)
    ELSE Append(path, segment)
RECURSIVE ParsePath(_, _, _)
ParsePath(path, segment, rest) ==
    IF rest = <<>> THEN PushSegment(path, segment, FALSE)
    ELSE IF Head(rest) = "/"
         THEN ParsePath(PushSegment(path, segment, TRUE), <<>>, Tail(rest))
         ELSE ParsePath(path, Append(segment, Head(rest)), Tail(rest))
\* path, query and fragment of the input s, the path starting from path
ParsePathQueryFragment(url, path, s) ==
    LET f == FirstOf(s, {"#"})
        q == FirstOf(Before(s, f), {"?"})
    IN  [url EXCEPT
           !.path = ParsePath(path, <<>>, Before(s, q)),
           !.query = IF q < f THEN Some(SubSeq(s, q + 1, f - 1)) ELSE None,
           !.fragment = IF f <= Len(s) THEN Some(After(s, f)) ELSE None]
\* the authority of a special scheme, s being what follows the slashes
ParseAuthority(scheme, s) ==
    LET e == FirstOf(s, {"/", "?", "#"}) IN
    IF e = 1 THEN Err("EmptyHost")
    ELSE Ok(ParsePathQueryFragment(
               [scheme |-> scheme,
                host |-> [i \in 1..(e - 1) |-> LowerLexeme(s[i])],
                path |-> <<>>, query |-> None, fragment |-> None],
               <<>>,
               IF e <= Len(s) /\ s[e] = "/" THEN After(s, e)
               ELSE SubSeq(s, e, Len(s))))
\* the number of "/" lexemes s starts with
LeadingSlashes(s) == FirstOf(s, IdLexemes \ {"/"}) - 1
UrlJoin(base, s) ==
    IF s = <<>> THEN Ok([base EXCEPT !.fragment = None])
    ELSE IF s[1] = "http:"
    THEN ParseAuthority("http", SubSeq(s, 2 + LeadingSlashes(Tail(s)), Len(s)))
    ELSE IF LeadingSlashes(s) >= 2
    THEN ParseAuthority(base.scheme, SubSeq(s, 1 + LeadingSlashes(s), Len(s)))
    ELSE IF s[1] = "/"
    THEN Ok(ParsePathQueryFragment(base, <<>>, Tail(s)))
    ELSE IF s[1] = "?"
    THEN LET f == FirstOf(s, {"#"}) IN
         Ok([base EXCEPT
               !.query = Some(SubSeq(s, 2, f - 1)),
               !.fragment = IF f <= Len(s) THEN Some(After(s, f)) ELSE None])
    ELSE IF s[1] = "#"
    THEN Ok([base EXCEPT !.fragment = Some(Tail(s))])
    ELSE Ok(ParsePathQueryFragment(base, ShortenPath(base.path), s))

(***************************************************************************)
(* The inputs of the model: what callers pass and what the service sends.  *)
(***************************************************************************)
Names           == {"jinja2", "asdfasdlfkj"}
Versions        == {"2.4.1", "0.0.1"}
Commits         == {"6879efc2c1596d11", "zzzz"}
QueryEcosystems == {"PyPI", "Npm", "CratesIO"}
Purls           == {None, Some("pkg:pypi/jinja2")}
Packages        == [name : Names, ecosystem : QueryEcosystems, purl : Purls]
Requests        == {CommitQuery(c) : c \in Commits}
                   \cup {PackageQuery(v, p) : v \in Versions, p \in Packages}

\* a Vulnerability with every optional field absent
MinimalVulnerability ==
    [schema_version |-> "1.3.0", id |-> "OSV-2020-484", published |-> 0,
     modified |-> 1, withdrawn |-> None, aliases |-> None, related |-> None,
     summary |-> None, details |-> None, affected |-> <<>>,
     references |-> None, severity |-> None, credits |-> None,
     database_specific |-> None]
BareAffected ==
    [package |-> [name |-> "jinja2", ecosystem |-> "PyPI", purl |-> None],
     ranges |-> <<>>, versions |-> None, ecosystem_specific |-> None,
     database_specific |-> None]
FullAffected ==
    [package |-> [name |-> "left-pad", ecosystem |-> "Npm",
                  purl |-> Some("pkg:npm/left-pad")],
     ranges |-> << [range_type |-> "Semver", repo |-> None,
                    events |-> <<Event("Introduced", "0"),
                                 Event("Fixed", "1.2.3")>>],
                   [range_type |-> "Git",
                    repo |-> Some("https://github.com/left-pad/left-pad"),
                    events |-> <<Event("Limit", "6879efc2c1596d11")>>] >>,
     versions |-> Some(<<"1.0.0", "1.1.0">>),
     ecosystem_specific |-> Some(JObj([k \in {"severity"} |-> JStr("HIGH")])),
     database_specific |-> Some(JArr(<<JNum(1)>>))]
\* a Vulnerability with every optional field present
FullVulnerability ==
    [schema_version |-> "1.3.0", id |-> "GHSA-vp9c-fpxx-744v",
     published |-> 0, modified |-> 1, withdrawn |-> Some(1),
     aliases |-> Some(<<"CVE-2021-3114">>), related |-> Some(<<>>),
     summary |-> Some("summary"), details |-> Some("details"),
     affected |-> <<FullAffected, BareAffected>>,
     references |-> Some(<<[reference_type |-> "Undefined",
                            url |-> "https://osv.dev"],
                           [reference_type |-> "Advisory",
                            url |-> "https://github.com/advisories"]>>),
     severity |-> Some(<<[severity_type |-> "CVSSv3",
                          score |-> "CVSS:3.1/AV:N"]>>),
     credits |-> Some(<<[name |-> "finder", contact |-> <<"mailto:f@x.org">>]>>),
     database_specific |-> Some(JObj([k \in {"cwe"} |-> JStr("CWE-79")]))]

\* the object o without the member k
Without(o, k) == [x \in DOMAIN o \ {k} |-> o[x]]
PackageDoc(ecosystem) ==
    JObj([k \in {"name", "ecosystem"} |->
            IF k = "name" THEN JStr("musl") ELSE JStr(ecosystem)])
RangeDoc(type, events) ==
    JObj([k \in {"type", "events"} |->
            IF k = "type" THEN JStr(type) ELSE JArr(events)])
AffectedDoc(package, ranges) ==
    JObj([k \in {"package", "ranges"} |->
            IF k = "package" THEN package ELSE JArr(ranges)])
VulnerabilityDocWith(affected) ==
    JObj(With(EncodeVulnerability(MinimalVulnerability).o, "affected",
              JArr(affected)))
\* records a conforming service may send
MinimalDoc == EncodeVulnerability(MinimalVulnerability)
FullDoc    == EncodeVulnerability(FullVulnerability)
\* a record with members this client does not know, and a null optional
ExtendedDoc ==
    JObj(With(With(FullDoc.o, "schema_extension", JStr("x")),
              "withdrawn", JNull))
\* a record that lacks the required member id
MissingIdDoc == JObj(Without(MinimalDoc.o, "id"))
\* a record of an ecosystem outside the fifteen known tags
UnknownEcosystemDoc ==
    VulnerabilityDocWith(<<AffectedDoc(PackageDoc("Alpine"), <<>>)>>)
\* a record with an unrecognized closed tag (a range type)
UnknownRangeTypeDoc ==
    VulnerabilityDocWith(<<AffectedDoc(PackageDoc("PyPI"),
                                       <<RangeDoc("FUTURE", <<>>)>>)>>)
ValidDocs   == {MinimalDoc, FullDoc, ExtendedDoc}
InvalidDocs == {MissingIdDoc, UnknownEcosystemDoc, UnknownRangeTypeDoc}
ItemDocs    == {MinimalDoc, FullDoc, MissingIdDoc, UnknownEcosystemDoc,
                UnknownRangeTypeDoc}
ItemLists   == UNION {[1..n -> ItemDocs] : n \in 0..MaxVulns}

\* a response body: a JSON document, or text that is not JSON
JsonBody(j) == [json |-> j]
TextBody(t) == [text |-> t]
IsJson(b)   == "json" \in DOMAIN b
VulnsBody(items) == JsonBody(JObj([k \in {"vulns"} |-> items]))
ErrorDoc ==
    JObj([k \in {"code", "message"} |->
            IF k = "code" THEN JNum(3) ELSE JStr("Invalid query")])
OtherBodies ==
    {JsonBody(JObj(EmptyObj)), JsonBody(ErrorDoc), JsonBody(JNull),
     JsonBody(JArr(<<>>)), TextBody(""), TextBody("<html>Bad Gateway</html>")}
QueryBodies ==
    {VulnsBody(JArr(items)) : items \in ItemLists}
    \cup {VulnsBody(JStr("none")), VulnsBody(JNull),
          JsonBody(JObj(With(VulnsBody(JArr(<<FullDoc>>)).json.o,
                             "next_page_token", JStr("t"))))}
    \cup OtherBodies
VulnerabilityBodies ==
    {JsonBody(d) : d \in ValidDocs \cup InvalidDocs} \cup OtherBodies
\* StatusCode::NotFound
NotFoundStatus == 404
Statuses  == {200, 400, NotFoundStatus, 500}
IsSuccess(status) == status >= 200 /\ status < 300
\* failures below the HTTP layer
TransportErrors == {"connect", "timeout"}

(***************************************************************************)
(* The transport (surf) and the code of the operations around it.          *)
(***************************************************************************)
\* "https://api.osv.dev/v1/query"
QueryUrl == [scheme |-> "https", host |-> <<"api.osv.dev">>,
             path |-> << <<"v1">>, <<"query">> >>,
             query |-> None, fragment |-> None]
Post(url, body) == [method |-> "POST", url |-> url, body |-> Some(body)]
Get(url)        == [method |-> "GET", url |-> url, body |-> None]
AsSurfResult(r) == IF IsOk(r) THEN r ELSE Err("decode")
\* Response::body_json, decoded_body being what the decoder of the target
\* type makes of the JSON of the body: a body that is not JSON or does not
\* decode is a surf::Error
BodyJson(body, decoded_body) ==
    IF IsJson(body) THEN AsSurfResult(decoded_body) ELSE Err("decode")
\* format!("package - `{}`", pkg.name) and format!("commit - `{}`", c);
\* the formatted text is kept as the sequence of its pieces
Quoted(s) == <<"BACKQUOTE", s, "BACKQUOTE">>
NotFoundResource(q) ==
    IF IsCommitQuery(q) THEN <<"commit - ">> \o Quoted(q.commit)
    ELSE <<"package - ">> \o Quoted(q.package.name)
\* QueryMatch deciding by the length of the array: an empty list is None
QueryMatch_ByLength(vulns) ==
    IF IsErr(vulns) THEN Err(FromSurfError(vulns.err))
    ELSE IF IsVulnerabilities(vulns.ok) /\ vulns.ok.vulns # <<>>
         THEN Ok(Some(vulns.ok.vulns))
    ELSE Ok(None)
\* the ? after body_json, and the match on the decoded Response
QueryMatch(vulns) ==
    IF IsErr(vulns) THEN Err(FromSurfError(vulns.err))
    ELSE IF IsVulnerabilities(vulns.ok) THEN Ok(Some(vulns.ok.vulns))
    ELSE Ok(None)
\* QueryResult decoding the body before it looks at the status
QueryResult_DecodeFirst(q, res) ==
    IF IsErr(BodyJson(res.body, DecodeResponse(res.body.json)))
    THEN Err(FromSurfError("decode"))
    ELSE IF res.status = NotFoundStatus
    THEN Err(NotFound(NotFoundResource(q)))
    ELSE QueryMatch(BodyJson(res.body, DecodeResponse(res.body.json)))
\* query, from the match on res.status() to its end
QueryResult(q, res) ==
    IF res.status = NotFoundStatus THEN Err(NotFound(NotFoundResource(q)))
    ELSE QueryMatch(BodyJson(res.body, DecodeResponse(res.body.json)))
\* the ? after body_json, and Ok(vuln)
VulnerabilityOk(vuln) ==
    IF IsErr(vuln) THEN Err(FromSurfError(vuln.err)) ELSE Ok(vuln.ok)
\* vulnerability, from the test of res.status() to its end
VulnerabilityResult(id, res) ==
    IF res.status = NotFoundStatus THEN Err(NotFound(id))
    ELSE VulnerabilityOk(BodyJson(res.body,
                                  DecodeVulnerability(res.body.json)))

QueryOps == {"query", "query_package", "query_commit"}
\* query up to the await of the request: the request is encoded and sent
SendQuery(name, q) ==
    /\ pc' = "awaiting"
    /\ op' = name
    /\ req' = Some(q)
    /\ sent' = Append(sent, Post(QueryUrl, EncodeRequest(q)))
    /\ UNCHANGED <<vuln_id, response, result, returns>>
    /\ UNCHANGED codecVars
query(q) ==
    /\ pc = "idle"
    /\ SendQuery("query", q)
query_package(name, version, ecosystem) ==
    /\ pc = "idle"
    /\ LET request == PackageQuery(version, [name |-> name,
                                             ecosystem |-> ecosystem,
                                             purl |-> None])
       IN  SendQuery("query_package", request)
query_commit(commit) ==
    /\ pc = "idle"
    /\ LET request == CommitQuery(commit)
       IN  SendQuery("query_commit", request)
\* vulnerability up to the await of the request
vulnerability(id) ==
    /\ pc = "idle"
    /\ op' = "vulnerability"
    /\ vuln_id' = Some(id)
    /\ LET url == UrlJoin(BaseUrl, id) IN
       IF IsErr(url)
       THEN /\ pc' = "done"
            /\ result' = Some(Err(InvalidUrl(url.err)))
            /\ returns' = returns + 1
            /\ UNCHANGED sent
       ELSE /\ pc' = "awaiting"
            /\ sent' = Append(sent, Get(url.ok))
            /\ UNCHANGED <<result, returns>>
    /\ UNCHANGED <<req, response>>
    /\ UNCHANGED codecVars
\* TransportFailure with one retry: the first failure sends the request again
TransportFailure_Retry(e) ==
    /\ pc = "awaiting"
    /\ IF Len(sent) < 2
       THEN /\ sent' = Append(sent, sent[1])
            /\ UNCHANGED <<pc, response, result, returns>>
       ELSE /\ pc' = "done"
            /\ response' = Some(Err(e))
            /\ result' = Some(Err(FromSurfError(e)))
            /\ returns' = returns + 1
            /\ UNCHANGED sent
    /\ UNCHANGED <<op, req, vuln_id>>
    /\ UNCHANGED codecVars
\* the transport fails: the await yields Err and the ? returns it
TransportFailure(e) ==
    /\ pc = "awaiting"
    /\ pc' = "done"
    /\ response' = Some(Err(e))
    /\ result' = Some(Err(FromSurfError(e)))
    /\ returns' = returns + 1
    /\ UNCHANGED <<op, req, vuln_id, sent>>
    /\ UNCHANGED codecVars
\* the transport answers a query and query runs to its end
QueryResponse(res) ==
    /\ pc = "awaiting"
    /\ op \in QueryOps
    /\ pc' = "done"
    /\ response' = Some(Ok(res))
    /\ result' = Some(QueryResult(req[1], res))
    /\ returns' = returns + 1
    /\ UNCHANGED <<op, req, vuln_id, sent>>
    /\ UNCHANGED codecVars
\* the transport answers the lookup and vulnerability runs to its end
VulnerabilityResponse(res) ==
    /\ pc = "awaiting"
    /\ op = "vulnerability"
    /\ pc' = "done"
    /\ response' = Some(Ok(res))
    /\ result' = Some(VulnerabilityResult(vuln_id[1], res))
    /\ returns' = returns + 1
    /\ UNCHANGED <<op, req, vuln_id, sent>>
    /\ UNCHANGED codecVars

CallIdle ==
    /\ pc = "idle"
    /\ op = "none"
    /\ req = None
    /\ vuln_id = None
    /\ sent = <<>>
    /\ response = None
    /\ result = None
    /\ returns = 0
CodecIdle ==
    /\ stage = "unused"
    /\ entity = "none"
    /\ subject = None
    /\ wire = None
    /\ decoded = None
Init ==
    /\ CallIdle
    /\ CodecIdle
Next ==
    \/ \E q \in Requests : query(q)
    \/ \E name \in Names, version \in Versions, ecosystem \in QueryEcosystems :
          query_package(name, version, ecosystem)
    \/ \E commit \in Commits : query_commit(commit)
    \/ \E id \in Ids : vulnerability(id)
    \/ \E e \in TransportErrors : TransportFailure(e)
    \/ \E status \in Statuses, body \in QueryBodies :
          QueryResponse([status |-> status, body |-> body])
    \/ \E status \in Statuses, body \in VulnerabilityBodies :
          VulnerabilityResponse([status |-> status, body |-> body])
Spec == Init /\ [][Next]_vars

(***************************************************************************)
(* The codec on its own: a value is encoded and decoded again, or a        *)
(* document (as it is, or with one more member) is decoded and the result  *)
(* encoded again.                                                          *)
(***************************************************************************)
Entities == {"Vulnerability", "Affected", "Package", "Range", "Event",
             "Reference", "Severity", "Credit"}
EncodeEntity(e, v) ==
    CASE e = "Vulnerability" -> EncodeVulnerability(v)
      [] e = "Affected"      -> EncodeAffected(v)
      [] e = "Package"       -> EncodePackage(v)
      [] e = "Range"         -> EncodeRange(v)
      [] e = "Event"         -> EncodeEvent(v)
      [] e = "Reference"     -> EncodeReference(v)
      [] e = "Severity"      -> EncodeSeverity(v)
      [] e = "Credit"        -> EncodeCredit(v)
      [] e = "RangeType"     -> EncodeRangeType(v)
      [] e = "ReferenceType" -> EncodeReferenceType(v)
      [] e = "SeverityType"  -> EncodeSeverityType(v)
DecodeEntity(e, j) ==
    CASE e = "Vulnerability" -> DecodeVulnerability(j)
      [] e = "Affected"      -> DecodeAffected(j)
      [] e = "Package"       -> DecodePackage(j)
      [] e = "Range"         -> DecodeRange(j)
      [] e = "Event"         -> DecodeEvent(j)
      [] e = "Reference"     -> DecodeReference(j)
      [] e = "Severity"      -> DecodeSeverity(j)
      [] e = "Credit"        -> DecodeCredit(j)
      [] e = "RangeType"     -> DecodeRangeType(j)
      [] e = "ReferenceType" -> DecodeReferenceType(j)
      [] e = "SeverityType"  -> DecodeSeverityType(j)

\* opaque payloads (serde_json::Value)
Payloads == {JNull, JStr("x"), JArr(<<>>),
             JObj([k \in {"cwe"} |-> JStr("CWE-79")])}
AffectedLists ==
    UNION {[1..n -> {BareAffected, FullAffected}] : n \in 0..MaxAffected}
\* Vulnerability values a caller can construct: every combination of the
\* optional fields absent or present
VulnerabilityValues ==
    [schema_version : {"1.3.0"}, id : {"OSV-2020-484"},
     published : {0}, modified : {1},
     withdrawn : {None, Some(1)},
     aliases : {None, Some(<<"CVE-2021-3114">>)},
     related : {None, Some(<<>>)},
     summary : {None, Some("summary")},
     details : {None, Some("")},
     affected : AffectedLists,
     references : {None, FullVulnerability.references},
     severity : {None, FullVulnerability.severity},
     credits : {None, FullVulnerability.credits},
     database_specific : {None} \cup {Some(p) : p \in Payloads}]
\* documents a service may send for each entity
EntityDocs(e) ==
    CASE e = "Vulnerability" -> ValidDocs \cup InvalidDocs
      [] e = "Affected" ->
           {EncodeAffected(BareAffected), EncodeAffected(FullAffected),
            AffectedDoc(PackageDoc("Alpine"), <<>>)}
      [] e = "Package" ->
           {EncodePackage(p) : p \in Packages}
           \cup {PackageDoc(t) : t \in {"OSS-Fuzz", "GitHub Actions", "Pub",
                                        "Alpine", "pypi"}}
      [] e = "Range" ->
           {EncodeRange(FullAffected.ranges[i]) : i \in 1..2}
           \cup {RangeDoc("FUTURE", <<>>)}
      [] e = "Event" ->
           {EncodeEvent(Event(k, "1.2.3")) : k \in EventKind}
           \cup {JObj([k \in {"last_affected"} |-> JStr("1.2.3")])}
      [] e = "Reference" ->
           {EncodeReference([reference_type |-> t, url |-> "https://osv.dev"]) :
               t \in ReferenceType}
      [] e = "Severity" ->
           {EncodeSeverity([severity_type |-> t, score |-> "CVSS:3.1/AV:N"]) :
               t \in SeverityType}
      [] e = "Credit" ->
           {EncodeCredit(FullVulnerability.credits[1][1])}
\* members no entity of the schema declares
UnknownKeys == {"x_future", "last_affected"}

CodecInit ==
    /\ CallIdle
    /\ decoded = None
    /\ \/ /\ stage = "value"
          /\ entity = "Vulnerability"
          /\ subject \in {Some(v) : v \in VulnerabilityValues}
          /\ wire = None
       \/ /\ stage = "document"
          /\ entity \in Entities
          /\ subject \in {Some(d) : d \in EntityDocs(entity)}
          /\ wire = subject
\* serialization of a constructed value
Encode ==
    /\ stage = "value"
    /\ stage' = "encoded"
    /\ wire' = Some(EncodeEntity(entity, subject[1]))
    /\ UNCHANGED <<entity, subject, decoded>>
    /\ UNCHANGED callVars
\* the service sends the document with one more member
AddUnknownKey(k, j) ==
    /\ stage = "document"
    /\ IsObj(wire[1])
    /\ k \notin DOMAIN wire[1].o
    /\ stage' = "extended"
    /\ wire' = Some(JObj(With(wire[1].o, k, j)))
    /\ UNCHANGED <<entity, subject, decoded>>
    /\ UNCHANGED callVars
\* deserialization of what is on the wire
Decode ==
    /\ stage \in {"encoded", "document", "extended"}
    /\ stage' = CASE stage = "encoded"  -> "round_trip"
                  [] stage = "document" -> "decoded"
                  [] stage = "extended" -> "decoded_extended"
    /\ decoded' = Some(DecodeEntity(entity, wire[1]))
    /\ UNCHANGED <<entity, subject, wire>>
    /\ UNCHANGED callVars
\* serialization of a decoded value
Reencode ==
    /\ stage = "decoded"
    /\ IsOk(decoded[1])
    /\ stage' = "reencoded"
    /\ wire' = Some(EncodeEntity(entity, decoded[1].ok))
    /\ UNCHANGED <<entity, subject, decoded>>
    /\ UNCHANGED callVars
CodecNext ==
    \/ Encode
    \/ \E k \in UnknownKeys, j \in {JStr("v"), JNull} : AddUnknownKey(k, j)
    \/ Decode
    \/ Reencode
CodecSpec == CodecInit /\ [][CodecNext]_vars

(***************************************************************************)
(* The closed tags on their own: each variant is serialized and read back, *)
(* and each spelling a service may send is read and written again.         *)
(***************************************************************************)
UnitTags == {"RangeType", "ReferenceType", "SeverityType"}
TagEntities == UnitTags \cup {"Event"}
EventVersions == {"1.2.3", "0", "6879efc2c1596d11a6a6ad296f80063b558d5e0f"}
TagValues(e) ==
    CASE e = "RangeType"     -> RangeType
      [] e = "ReferenceType" -> ReferenceType
      [] e = "SeverityType"  -> SeverityType
      [] e = "Event"         -> {Event(k, s) : k \in EventKind,
                                               s \in EventVersions}
\* spellings a document may carry where a tag is expected
TagSpellings ==
    {"UNSPECIFIED", "GIT", "SEMVER", "ECOSYSTEM", "NONE", "WEB", "ADVISORY",
     "REPORT", "FIX", "PACKAGE", "ARTICLE", "CVSS_V3",
     "UNDEFINED", "Undefined", "Git", "git", "CVSSv3", "CVSSV3"}
EventKeys == {"introduced", "fixed", "limit", "Introduced", "FIXED",
              "last_affected"}
TagDocs(e) ==
    IF e \in UnitTags THEN {JStr(s) : s \in TagSpellings}
    ELSE {JObj([x \in {k} |-> JStr("1.2.3")]) : k \in EventKeys}
         \cup {JObj([x \in {"introduced", "fixed"} |-> JStr("1.2.3")]),
               JStr("introduced")}
TagInit ==
    /\ CallIdle
    /\ decoded = None
    /\ entity \in TagEntities
    /\ \/ /\ stage = "value"
          /\ subject \in {Some(v) : v \in TagValues(entity)}
          /\ wire = None
       \/ /\ stage = "document"
          /\ subject \in {Some(d) : d \in TagDocs(entity)}
          /\ wire = subject
TagSpec == TagInit /\ [][CodecNext]_vars

(***************************************************************************)
(* Properties of the operations, checked under Spec.                       *)
(***************************************************************************)
\* a call has returned after the transport delivered the response res
Answered(res) == pc = "done" /\ response = Some(Ok(res))
\* the "vulnerabilities" shape: an object whose member vulns is an array of
\* records that decode
MatchesVulnerabilities(b) ==
    /\ IsJson(b)
    /\ IsObj(b.json)
    /\ "vulns" \in DOMAIN b.json.o
    /\ IsOk(DecodeVulnerabilityList(b.json.o["vulns"]))
\* the "no result" shape: a JSON document that carries no member vulns
MatchesNoResult(b) ==
    /\ IsJson(b)
    /\ ~(IsObj(b.json) /\ "vulns" \in DOMAIN b.json.o)

\* C1: when query gets a response that is not a 404 and whose body matches
\* neither the "vulnerabilities" shape nor the "no result" shape, it returns
\* Err(SerializationError), and so never Ok(None).
C1_NeitherShapeIsSerializationError ==
    \A status \in Statuses, body \in QueryBodies :
        (/\ op \in QueryOps
         /\ Answered([status |-> status, body |-> body])
         /\ status # NotFoundStatus
         /\ ~MatchesVulnerabilities(body)
         /\ ~MatchesNoResult(body))
        => result = Some(Err(SerializationError))

\* the identifier a NotFound of the call in progress must carry
ExpectedNotFound ==
    IF op = "vulnerability" THEN vuln_id[1]
    ELSE IF "commit" \in DOMAIN req[1]
    THEN <<"commit - ", "BACKQUOTE", req[1].commit, "BACKQUOTE">>
    ELSE <<"package - ", "BACKQUOTE", req[1].package.name, "BACKQUOTE">>
\* C2: whenever the status of the response is 404, query and vulnerability
\* return Err(NotFound(identifier)) whatever the body holds; the identifier is
\* built from the package name alone for a PackageQuery (the version is no
\* piece of it), from the commit hash for a CommitQuery, and is the requested
\* id itself for vulnerability.
C2_NotFoundShortCircuits ==
    \A body \in QueryBodies \cup VulnerabilityBodies :
        Answered([status |-> NotFoundStatus, body |-> body])
        => /\ result = Some(Err(NotFound(ExpectedNotFound)))
           /\ (op \in QueryOps /\ "version" \in DOMAIN req[1])
              => \A i \in 1..Len(result[1].err.resource) :
                    result[1].err.resource[i] # req[1].version
\* a package query answered 404 with a body that would decode to records
C2_Witness ==
    /\ op = "query_package"
    /\ Answered([status |-> NotFoundStatus,
                 body |-> VulnsBody(JArr(<<FullDoc>>))])
    /\ result = Some(Err(NotFound(<<"package - ", "BACKQUOTE",
                                    req[1].package.name, "BACKQUOTE">>)))

\* the record a document of a conforming service stands for
ExpectedRecord(doc) ==
    IF doc = MinimalDoc THEN MinimalVulnerability ELSE FullVulnerability
\* C3: for a response that is not a 404, a body {"vulns": [v1..vn]} of valid
\* records makes query return Ok(Some(list)) with the n records in the order
\* sent (n = 0 gives Some of the empty list, not None), and the body {} makes
\* it return Ok(None).
C3_SomeByKeyPresence ==
    \A status \in Statuses \ {NotFoundStatus} :
        /\ \A items \in ItemLists :
              (/\ op \in QueryOps
               /\ Answered([status |-> status, body |-> VulnsBody(JArr(items))])
               /\ \A i \in 1..Len(items) : items[i] \in {MinimalDoc, FullDoc})
              => /\ IsOk(result[1])
                 /\ Len(result[1].ok) = 1
                 /\ Len(result[1].ok[1]) = Len(items)
                 /\ \A i \in 1..Len(items) :
                       result[1].ok[1][i] = ExpectedRecord(items[i])
        /\ (/\ op \in QueryOps
            /\ Answered([status |-> status, body |-> JsonBody(JObj(EmptyObj))]))
           => result = Some(Ok(None))
\* a query answered 200 with {"vulns": []}
C3_Witness ==
    /\ op \in QueryOps
    /\ Answered([status |-> 200, body |-> VulnsBody(JArr(<<>>))])
    /\ result = Some(Ok(Some(<<>>)))

\* C4: a response whose status is a failure other than 404 makes query and
\* vulnerability return an error, never a successful result, whatever JSON
\* the body carries.
C4_FailureStatusIsError ==
    \A status \in Statuses, body \in QueryBodies \cup VulnerabilityBodies :
        (/\ Answered([status |-> status, body |-> body])
         /\ ~IsSuccess(status)
         /\ status # NotFoundStatus)
        => IsErr(result[1])

\* C5: for a response that is not a 404, vulnerability returns Ok of the
\* decoded record when the body decodes as a Vulnerability, and
\* Err(SerializationError) when it does not.
C5_UndecodableIsSerializationError ==
    \A status \in Statuses \ {NotFoundStatus}, body \in VulnerabilityBodies :
        (op = "vulnerability" /\ Answered([status |-> status, body |-> body]))
        => IF IsJson(body) /\ IsOk(DecodeVulnerability(body.json))
           THEN result = Some(Ok(DecodeVulnerability(body.json).ok))
           ELSE result = Some(Err(SerializationError))

\* C6 as stated: every call issues exactly one request and ends with exactly
\* one outcome; no call returns without having issued its request.
C6_ExactlyOneRequest ==
    pc = "done" => (Len(sent) = 1 /\ returns = 1)
\* C6 as amended: a call never issues more than one request and never
\* returns more than one outcome; a call that has returned has returned
\* once and has issued exactly one request, unless it is a vulnerability
\* call that returned Err(InvalidUrl), which has issued none; a transport
\* failure ends the call with Err(RequestFailed) after that single request.
C6_OneRequestUnlessInvalidUrl ==
    /\ Len(sent) <= 1
    /\ returns <= 1
    /\ pc = "idle" => (Len(sent) = 0 /\ returns = 0 /\ result = None)
    /\ pc = "awaiting" => (Len(sent) = 1 /\ returns = 0 /\ result = None)
    /\ pc = "done"
       => /\ returns = 1
          /\ result # None
          /\ Len(sent) = 0
             <=> (/\ op = "vulnerability"
                  /\ IsErr(result[1])
                  /\ result[1].err.kind = "InvalidUrl")
          /\ \A e \in TransportErrors :
                response = Some(Err(e))
                => (Len(sent) = 1 /\ result = Some(Err(RequestFailed(e))))
\* a call whose only request met a transport failure
C6_Witness ==
    /\ pc = "done"
    /\ response = Some(Err("timeout"))
    /\ Len(sent) = 1
    /\ returns = 1
    /\ result = Some(Err(RequestFailed("timeout")))

\* the wire spelling of the ecosystems the wrappers are called with
ExpectedEcosystemTag(e) ==
    CASE e = "PyPI" -> "PyPI" [] e = "Npm" -> "npm" [] e = "CratesIO" -> "crates.io"
\* C10: query_commit(c) sends a body whose only key is "commit", with value
\* c; query_package sends a body whose keys are exactly "version" and
\* "package", the package holding exactly "name" and "ecosystem" (purl is
\* None and has no key); no body carries a key of both shapes or any other
\* key; a wrapper returns what query returns for the Request it built.
C10_UntaggedWireForm ==
    (op \in QueryOps /\ pc # "idle")
    => LET q == req[1]
           b == sent[1].body[1].o
       IN  /\ sent[1].method = "POST"
           /\ DOMAIN b \in {{"commit"}, {"version", "package"}}
           /\ op = "query_commit"
              => /\ DOMAIN q = {"commit"}
                 /\ DOMAIN b = {"commit"}
                 /\ b["commit"] = [s |-> q.commit]
           /\ op = "query_package"
              => /\ DOMAIN q = {"version", "package"}
                 /\ q.package.purl = None
                 /\ DOMAIN b = {"version", "package"}
                 /\ b["version"] = [s |-> q.version]
                 /\ DOMAIN b["package"].o = {"name", "ecosystem"}
                 /\ b["package"].o["name"] = [s |-> q.package.name]
                 /\ b["package"].o["ecosystem"] =
                       [s |-> ExpectedEcosystemTag(q.package.ecosystem)]
           /\ \A status \in Statuses, body \in QueryBodies :
                 Answered([status |-> status, body |-> body])
                 => result = Some(QueryResult(q, [status |-> status,
                                                  body |-> body]))
\* query_package has sent its body and returned the records of the answer
C10_Witness ==
    /\ op = "query_package"
    /\ Answered([status |-> 200, body |-> VulnsBody(JArr(<<MinimalDoc>>))])
    /\ DOMAIN sent[1].body[1].o = {"version", "package"}
    /\ result = Some(Ok(Some(<<MinimalVulnerability>>)))

(***************************************************************************)
(* Properties of the codec, checked under CodecSpec.                       *)
(***************************************************************************)
\* C7: encoding and then decoding a constructed Vulnerability yields an
\* equal value, and the encoded object has the key of an optional field if
\* and only if the field is present.
C7_RoundTrip ==
    /\ stage \in {"encoded", "round_trip"}
       => \A k \in VulnerabilityOptional :
             k \in DOMAIN wire[1].o <=> subject[1][k] # None
    /\ stage = "round_trip" => decoded = Some(Ok(subject[1]))

\* the known wire spellings of Package.ecosystem
KnownEcosystemTags ==
    {"Go", "npm", "OSS-Fuzz", "PyPI", "RubyGems", "crates.io", "Packagist",
     "Maven", "NuGet", "Linux", "Debian", "Hex", "Android", "GitHub Actions",
     "Pub"}
\* C8: decoding a Package whose ecosystem string is not one of the fifteen
\* known tags succeeds, and encoding the decoded value again emits the same
\* ecosystem string.
C8_UnknownEcosystemTolerated ==
    (/\ entity = "Package"
     /\ stage \in {"decoded", "reencoded"}
     /\ subject[1].o["ecosystem"].s \notin KnownEcosystemTags)
    => /\ IsOk(decoded[1])
       /\ stage = "reencoded"
          => wire[1].o["ecosystem"] = subject[1].o["ecosystem"]

\* two decode results agree: the same value, or both failures
SameResult(a, b) == IF IsOk(a) THEN a = b ELSE IsErr(b)
\* C9: a member the schema does not declare, added to the object of any
\* entity, leaves the result of decoding what it was without that member.
C9_UnknownKeysIgnored ==
    stage = "decoded_extended"
    => SameResult(DecodeEntity(entity, subject[1]), decoded[1])

(***************************************************************************)
(* Properties of the closed tags, checked under TagSpec.                   *)
(***************************************************************************)
\* the spelling each variant of a unit tag is to have on the wire
ExpectedSpelling(e, v) ==
    CASE e = "RangeType" ->
           (CASE v = "Unspecified" -> "UNSPECIFIED"
              [] v = "Git"         -> "GIT"
              [] v = "Semver"      -> "SEMVER"
              [] v = "Ecosystem"   -> "ECOSYSTEM")
      [] e = "ReferenceType" ->
           (CASE v = "Undefined" -> "NONE"
              [] v = "Web"       -> "WEB"
              [] v = "Advisory"  -> "ADVISORY"
              [] v = "Report"    -> "REPORT"
              [] v = "Fix"       -> "FIX"
              [] v = "Package"   -> "PACKAGE"
              [] v = "Article"   -> "ARTICLE")
      [] e = "SeverityType" ->
           (CASE v = "Unspecified" -> "UNSPECIFIED"
              [] v = "CVSSv3"      -> "CVSS_V3")
\* the key an event of each kind is to have on the wire
ExpectedEventKey(k) ==
    CASE k = "Introduced" -> "introduced"
      [] k = "Fixed"      -> "fixed"
      [] k = "Limit"      -> "limit"
\* C11: every variant of RangeType, ReferenceType and SeverityType is written
\* as its listed spelling (upper-case name, Undefined as "NONE", CVSSv3 as
\* "CVSS_V3"), an Event is written as an object with the one key that is the
\* lower-case variant name and the string as its value, two variants of one
\* tag never share a spelling, and reading back what was written gives the
\* variant that was written.
C11_TagFidelity ==
    /\ stage \in {"encoded", "round_trip"}
          => IF entity \in UnitTags
             THEN wire[1] = JStr(ExpectedSpelling(entity, subject[1]))
             ELSE /\ IsObj(wire[1])
                  /\ DOMAIN wire[1].o = {ExpectedEventKey(subject[1].kind)}
                  /\ wire[1].o[ExpectedEventKey(subject[1].kind)]
                        = JStr(subject[1].version)
    /\ stage = "encoded"
          => \A v \in TagValues(entity) :
                v # subject[1] => EncodeEntity(entity, v) # wire[1]
    /\ stage = "round_trip" => decoded = Some(Ok(subject[1]))
    /\ stage = "reencoded" => wire = subject
\* the renamed variant has been written as "NONE" and read back
C11_Witness ==
    /\ stage = "round_trip"
    /\ entity = "ReferenceType"
    /\ subject = Some("Undefined")
    /\ wire = Some(JStr("NONE"))
    /\ decoded = Some(Ok("Undefined"))

(***************************************************************************)
(* Properties of the request vulnerability issues, checked under Spec.     *)
(***************************************************************************)
\* the URL has the origin of the service
SameOrigin(url) == url.scheme = BaseUrl.scheme /\ url.host = BaseUrl.host
\* the path lies under the base path /v1/vulns/
UnderBasePath(url) ==
    /\ Len(url.path) >= Len(BaseUrl.path)
    /\ \A i \in 1..(Len(BaseUrl.path) - 1) : url.path[i] = BaseUrl.path[i]
\* C12: a vulnerability call either fails with InvalidUrl having issued no
\* request, or its one GET goes to the origin of the service with the path
\* /v1/vulns/ followed by the id as a single segment; the request never
\* leaves that origin or the base path.
C12_RequestStaysUnderVulns ==
    (op = "vulnerability" /\ pc # "idle")
    => IF sent = <<>>
       THEN /\ pc = "done"
            /\ IsErr(result[1])
            /\ result[1].err.kind = "InvalidUrl"
       ELSE /\ Len(sent) = 1
            /\ sent[1].method = "GET"
            /\ SameOrigin(sent[1].url)
            /\ UnderBasePath(sent[1].url)
            /\ sent[1].url.path
                  = <<BaseUrl.path[1], BaseUrl.path[2], vuln_id[1]>>

====
